---- MODULE Spec2Model ----
(***************************************************************************)
(* A model of the simplestackmachine interpreter (src/src/smachine/vm.rs): *)
(* the run loop, eval's dispatch, every opcode handler, the promotion      *)
(* check in Ret and the x86-64 JIT.                                        *)
(*                                                                         *)
(* A 64-bit word (u64) is kept at full width as four 16-bit limbs, least   *)
(* significant first, so that wrap-around, truncation (`bits as T`) and    *)
(* sign extension (`self as u64`) are the ones of the code.                *)
(***************************************************************************)
EXTENDS Integers, Sequences, FiniteSets, TLC

(* ------------------------------------------------------------------ *)
(* Program constants                                                    *)
(* ------------------------------------------------------------------ *)

\* vm.rs:14  const MAX_SIZE: usize = 10;
MAX_SIZE == 10

\* vm.rs:15  const INTERPRETED_EXECUTIONS: u64 = 1;
INTERPRETED_EXECUTIONS == 1

(* ------------------------------------------------------------------ *)
(* Bounds of the model                                                  *)
(* ------------------------------------------------------------------ *)

\* Instructions one run may execute (the code's loop has no such limit).
MaxSteps == 14

\* Length of the programs enumerated exhaustively over GenInstrs.
MaxProgLen == 3

(* ------------------------------------------------------------------ *)
(* 64-bit words                                                         *)
(* ------------------------------------------------------------------ *)

Limb == 2^16
LimbMax == Limb - 1
HalfLimb == 2^15

\* The u64 with value n, for 0 <= n < 2^31.
Word(n) == <<n % Limb, (n \div Limb) % Limb, 0, 0>>

Zero == <<0, 0, 0, 0>>
U64Max == <<LimbMax, LimbMax, LimbMax, LimbMax>>
I64Min == <<0, 0, 0, HalfLimb>>
I64Max == <<LimbMax, LimbMax, LimbMax, HalfLimb - 1>>

\* A word that is below 2^16, and its value.
IsSmall(w) == w[2] = 0 /\ w[3] = 0 /\ w[4] = 0
Small(w) == w[1]

\* w > n and w >= n for a word w and a natural n < 2^16 (usize comparisons).
WordGt(w, n) == ~IsSmall(w) \/ w[1] > n
WordGe(w, n) == ~IsSmall(w) \/ w[1] >= n

\* a + b + cin on 64 bits: the wrapped sum and the carry out of bit 63.
AddC(a, b, cin) ==
    LET s1 == a[1] + b[1] + cin
        s2 == a[2] + b[2] + (s1 \div Limb)
        s3 == a[3] + b[3] + (s2 \div Limb)
        s4 == a[4] + b[4] + (s3 \div Limb)
    IN [bits |-> <<s1 % Limb, s2 % Limb, s3 % Limb, s4 % Limb>>,
        carry |-> s4 \div Limb]

Not64(a) == <<LimbMax - a[1], LimbMax - a[2], LimbMax - a[3], LimbMax - a[4]>>

\* Wrapping 64-bit sum and difference.
WAdd(a, b) == AddC(a, b, 0).bits
WSub(a, b) == AddC(a, Not64(b), 1).bits

\* Bit 63.
Neg64(a) == a[4] >= HalfLimb

(* ------------------------------------------------------------------ *)
(* NumberBits: the integer types of impl_bits_int!                      *)
(* A value of type T is held as the u64 that `value as u64` gives: zero *)
(* extended for the unsigned types, sign extended for the signed ones.  *)
(* ------------------------------------------------------------------ *)

IntTypes == {"u8", "u16", "u32", "u64", "i8", "i16", "i32", "i64"}

Width(T) ==
    CASE T \in {"u8", "i8"} -> 8
      [] T \in {"u16", "i16"} -> 16
      [] T \in {"u32", "i32"} -> 32
      [] T \in {"u64", "i64"} -> 64

Signed(T) == T \in {"i8", "i16", "i32", "i64"}

\* The low Width bits of a word, the rest cleared.
Trunc(w, bits) ==
    CASE w = 8 -> <<bits[1] % 256, 0, 0, 0>>
      [] w = 16 -> <<bits[1], 0, 0, 0>>
      [] w = 32 -> <<bits[1], bits[2], 0, 0>>
      [] w = 64 -> bits

\* Bit w-1 of a word.
SignBit(w, bits) ==
    CASE w = 8 -> (bits[1] % 256) >= 128
      [] w = 16 -> bits[1] >= HalfLimb
      [] w = 32 -> bits[2] >= HalfLimb
      [] w = 64 -> bits[4] >= HalfLimb

\* The low w bits of a word, the rest set to bit w-1.
SignExtend(w, bits) ==
    IF ~SignBit(w, bits) THEN Trunc(w, bits)
    ELSE CASE w = 8 -> <<(bits[1] % 256) + (Limb - 256), LimbMax, LimbMax, LimbMax>>
           [] w = 16 -> <<bits[1], LimbMax, LimbMax, LimbMax>>
           [] w = 32 -> <<bits[1], bits[2], LimbMax, LimbMax>>
           [] w = 64 -> bits

\* T::from_bits(bits) = bits as T, then into_bits = self as u64.
from_bits(T, bits) ==
    IF Signed(T) THEN SignExtend(Width(T), bits) ELSE Trunc(Width(T), bits)

into_bits(T, v) == v

\* x + y in type T (std::ops::Add): the wrapped result and whether the
\* exact sum leaves T, which panics in a build with overflow checks.
TAdd(T, x, y) ==
    LET s == AddC(x, y, 0)
        res == from_bits(T, s.bits)
        over == IF Width(T) < 64 THEN res # s.bits
                ELSE IF Signed(T)
                     THEN Neg64(x) = Neg64(y) /\ Neg64(s.bits) # Neg64(x)
                     ELSE s.carry = 1
    IN [value |-> res, overflow |-> over]

\* x - y in type T (std::ops::Sub).
TSub(T, x, y) ==
    LET s == AddC(x, Not64(y), 1)
        res == from_bits(T, s.bits)
        over == IF Width(T) < 64 THEN res # s.bits
                ELSE IF Signed(T)
                     THEN Neg64(x) # Neg64(y) /\ Neg64(s.bits) # Neg64(x)
                     ELSE s.carry = 0
    IN [value |-> res, overflow |-> over]

\* char::from_u32(value as u32).is_some(): a Unicode scalar value.
ValidChar(bits) ==
    \/ bits[2] = 0 /\ (bits[1] < 55296 \/ bits[1] >= 57344)
    \/ bits[2] \in 1..16

(* ------------------------------------------------------------------ *)
(* Opcode registry (compiler.rs) and ByteCode records                   *)
(* ------------------------------------------------------------------ *)

\* enum TokenType, in declaration order: the ordinal is the opcode byte.
TokenType ==
    <<"Push", "Pop", "Uadd8", "Usub8", "Uadd16", "Usub16", "Uadd32", "Usub32",
      "Uadd64", "Usub64", "Add8", "Sub8", "Add16", "Sub16", "Add32", "Sub32",
      "Add64", "Sub64", "Addf64", "Subf64", "Addf32", "Subf32", "Prt", "Inc",
      "Dup", "Jmp", "Call", "Jmpp", "Halt", "Ret", "Swap", "Jeq", "Jnz", "Cmp",
      "Int", "Value", "Label", "Name", "Err">>

\* `kind as u8`
Ord(name) == (CHOOSE i \in 1..Len(TokenType) : TokenType[i] = name) - 1

\* TokenType::from(opcode: u8)
TokenTypeFrom(opcode) ==
    IF opcode < Ord("Err") THEN TokenType[opcode + 1] ELSE "Err"

\* struct ByteCode { opcode: u8, value: u64 }
ByteCode(name, value) == [opcode |-> Ord(name), value |-> value]

(* ------------------------------------------------------------------ *)
(* State                                                                *)
(* ------------------------------------------------------------------ *)

VARIABLES
    bin,                  \* VM.bin: the program, a sequence of ByteCode
    pc,                   \* VM.pc
    stack,                \* VM.stack: [0..MAX_SIZE-1 -> word]
    sp,                   \* VM.sp
    proc_pc,              \* VM.proc_pc (a usize, kept as a word)
    should_increment_pc,  \* VM.should_increment_pc
    funcs_used,           \* VM.funcs_used: entry (word) -> count
    compiled_procs,       \* VM.compiled_procs: entry (word) -> index of its region
    jit_memory_store,     \* VM.jit_memory_store: the code of each region
    status,               \* where run() is, or how the process ended (Ended)
    overflow_checks,      \* the build: whether integer overflow panics
    steps,                \* instructions executed so far
    source,               \* the source text given to the assembler, as tokens
    byts,                 \* what byte_code_compiler(source) returned, if called
    file,                 \* the bytes write_bin put in the .bin file, if called
    loaded                \* what read_bin gave for that file, if called

\* The state of the toolchain around the VM (compiler.rs, main.rs).
tool == <<source, byts, file, loaded>>

vars == <<bin, pc, stack, sp, proc_pc, should_increment_pc, funcs_used,
          compiled_procs, jit_memory_store, status, overflow_checks, steps,
          source, byts, file, loaded>>

\* A call not made yet.
NotYet == [called |-> FALSE, some |-> FALSE, val |-> <<>>]

\* How the process can end without run() returning: a Rust panic (a stack
\* index outside the array, an integer overflow in a build that checks for
\* it, a slice whose start is past its end) or native code gone wrong.
Panics == {"index", "overflow", "slice"}
Ended == Panics \cup {"crash"}

\* The VM as one value, for the handlers. `abort` is set by a handler that
\* does not return, to the member of Ended that says why.
Self ==
    [pc |-> pc, stack |-> stack, sp |-> sp, proc_pc |-> proc_pc,
     should_increment_pc |-> should_increment_pc, funcs_used |-> funcs_used,
     compiled_procs |-> compiled_procs, jit_memory_store |-> jit_memory_store,
     abort |-> ""]

\* Option<u64>: Some(val) or None.
Some(m, val) == [m |-> m, some |-> TRUE, val |-> val]
None(m) == [m |-> m, some |-> FALSE, val |-> Zero]
Abort(m, how) == None([m EXCEPT !.abort = how])

(* ------------------------------------------------------------------ *)
(* push / pop                                                           *)
(* ------------------------------------------------------------------ *)

\* `let x = e; body`: body with x bound to e.
Bind(x, body(_)) == body(x)

\* self.stack[i] = value; an index outside the array panics.
StackSet(m, i, value) ==
    IF i \in 0..(MAX_SIZE - 1) THEN [m EXCEPT !.stack[i] = value]
    ELSE [m EXCEPT !.abort = "index"]

\* fn push(&mut self, value: u64) -> Option<u64>
push(m, value) ==
    IF m.abort # "" THEN None(m)
    ELSE IF m.sp = MAX_SIZE THEN None(m)
    ELSE IF m.sp \notin 0..(MAX_SIZE - 1) THEN Abort(m, "index")
    ELSE Some([m EXCEPT !.stack[m.sp] = value, !.sp = m.sp + 1], Zero)

\* fn pop(&mut self) -> Option<u64>
pop(m) ==
    IF m.abort # "" THEN None(m)
    ELSE IF m.sp = 0 THEN None(m)
    ELSE IF (m.sp - 1) \notin 0..(MAX_SIZE - 1)
         THEN Abort([m EXCEPT !.sp = m.sp - 1], "index")
    ELSE Some([m EXCEPT !.sp = m.sp - 1], m.stack[m.sp - 1])

(* ------------------------------------------------------------------ *)
(* Arithmetic handlers                                                  *)
(* ------------------------------------------------------------------ *)

\* fn add<T: NumberBits>(&mut self) -> Option<u64>
add(m, T, checks) ==
    Bind(pop(m), LAMBDA v1 :
    Bind(pop(v1.m), LAMBDA v2 :
        IF v1.some /\ v2.some
        THEN Bind(TAdd(T, from_bits(T, v1.val), from_bits(T, v2.val)), LAMBDA r :
                 IF r.overflow /\ checks THEN Abort(v2.m, "overflow")
                 ELSE push(v2.m, into_bits(T, r.value)))
        ELSE None(v2.m)))

\* fn sub<T: NumberBits>(&mut self) -> Option<u64>
sub(m, T, checks) ==
    Bind(pop(m), LAMBDA v1 :
    Bind(pop(v1.m), LAMBDA v2 :
        IF v1.some /\ v2.some
        THEN Bind(TSub(T, from_bits(T, v2.val), from_bits(T, v1.val)), LAMBDA r :
                 IF r.overflow /\ checks THEN Abort(v2.m, "overflow")
                 ELSE push(v2.m, into_bits(T, r.value)))
        ELSE None(v2.m)))

\* NumberBitsFloat::into_bits: f64 gives all 64 bits, f32 `to_bits() as u64`.
\* The sum or difference itself is the host's IEEE-754 arithmetic, which is
\* not modelled: `fres` stands for the bits it produces.
FloatBits(T, fres) == IF T = "f32" THEN Trunc(32, fres) ELSE fres

\* fn addf<T: NumberBitsFloat>(&mut self) -> Option<u64>
addf(m, T, fres) ==
    Bind(pop(m), LAMBDA b1 :
    Bind(pop(b1.m), LAMBDA b2 :
        IF b1.some /\ b2.some
        THEN Some(push(b2.m, FloatBits(T, fres)).m, Zero)
        ELSE None(b2.m)))

\* fn subf<T: NumberBitsFloat>(&mut self) -> Option<u64>
subf(m, T, fres) ==
    Bind(pop(m), LAMBDA b1 :
    Bind(pop(b1.m), LAMBDA b2 :
        IF b1.some /\ b2.some
        THEN Some(push(b2.m, FloatBits(T, fres)).m, Zero)
        ELSE None(b2.m)))

\* fn cmp(&mut self) -> Option<u64>
cmp(m, checks) ==
    Bind(pop(m), LAMBDA v1 :
    Bind(pop(v1.m), LAMBDA v2 :
        IF v1.some /\ v2.some
        THEN Bind(TSub("i64", from_bits("i64", v1.val), from_bits("i64", v2.val)),
                  LAMBDA r :
                      IF r.overflow /\ checks THEN Abort(v2.m, "overflow")
                      ELSE Some(push(v2.m, into_bits("i64", r.value)).m, Zero))
        ELSE None(v2.m)))

\* fn inc<T: NumberBits>(&mut self) -> Option<u64>, used at T = u64
inc(m, T) ==
    Bind(pop(m), LAMBDA v :
        IF v.some
        THEN IF from_bits(T, v.val) = from_bits(T, U64Max) THEN None(v.m)
             ELSE Some(push(v.m, WAdd(v.val, Word(1))).m, Zero)
        ELSE None(v.m))

\* fn prt(&mut self) -> Option<u64>
prt(m) ==
    Bind(pop(m), LAMBDA v1 :
        IF v1.some /\ ValidChar(Trunc(32, v1.val)) THEN Some(v1.m, v1.val)
        ELSE None(v1.m))

\* dup() as it would be with one push in place of two: the word is popped
\* and put back once.
dup_once(m) ==
    Bind(pop(m), LAMBDA v :
        IF v.some THEN Some(push(v.m, v.val).m, Zero)
        ELSE None(v.m))

\* fn dup(&mut self) -> Option<u64>
dup(m) ==
    Bind(pop(m), LAMBDA v :
        IF v.some THEN Some(push(push(v.m, v.val).m, v.val).m, Zero)
        ELSE None(v.m))

\* swap() as it would be without `self.stack[pos] = sf`: the word below
\* comes to the top and the old top is lost.
swap_lost(m, swap_value) ==
    IF IsSmall(swap_value) /\ m.sp > Small(swap_value)
    THEN Bind(pop(m), LAMBDA sf :
             IF sf.some
             THEN Bind(sf.m.sp - Small(swap_value), LAMBDA pos :
                      IF pos \notin 0..(MAX_SIZE - 1) THEN Abort(sf.m, "index")
                      ELSE Some(push(sf.m, sf.m.stack[pos]).m, Zero))
             ELSE None(sf.m))
    ELSE None(m)

\* fn swap(&mut self, swap_value: u64) -> Option<u64>
swap(m, swap_value) ==
    IF IsSmall(swap_value) /\ m.sp > Small(swap_value)
    THEN Bind(pop(m), LAMBDA sf :
             IF sf.some
             THEN Bind(sf.m.sp - Small(swap_value), LAMBDA pos :
                      IF pos \notin 0..(MAX_SIZE - 1) THEN Abort(sf.m, "index")
                      ELSE Some(push(StackSet(sf.m, pos, sf.val), sf.m.stack[pos]).m,
                                Zero))
             ELSE None(sf.m))
    ELSE None(m)

(* ------------------------------------------------------------------ *)
(* Control handlers                                                     *)
(* ------------------------------------------------------------------ *)

\* HashMap::insert
Insert(f, key, value) ==
    [k \in (DOMAIN f) \cup {key} |-> IF k = key THEN value ELSE f[k]]

\* fn jmp(&mut self, pc: usize) -> Option<u64>
jmp(m, target) ==
    IF WordGe(target, Len(bin)) THEN None([m EXCEPT !.should_increment_pc = FALSE])
    ELSE Some([m EXCEPT !.should_increment_pc = FALSE, !.pc = Small(target)], Zero)

\* fn jmpp(&mut self) -> Option<u64>
jmpp(m) ==
    Bind(pop([m EXCEPT !.should_increment_pc = FALSE]), LAMBDA t :
        IF t.some /\ ~WordGe(t.val, Len(bin)) THEN Some(t.m, Zero)
        ELSE None(t.m))

\* jeq() as it would be with its test inverted (value != 0).
jeq_inverted(m, address) ==
    Bind(pop(m), LAMBDA v :
        IF v.some
        THEN IF v.val # Zero THEN Some(jmp(v.m, address).m, Zero)
             ELSE Some(v.m, Zero)
        ELSE None(v.m))

\* fn jeq(&mut self, address: usize) -> Option<u64>
jeq(m, address) ==
    Bind(pop(m), LAMBDA v :
        IF v.some
        THEN IF v.val = Zero THEN Some(jmp(v.m, address).m, Zero)
             ELSE Some(v.m, Zero)
        ELSE None(v.m))

\* fn jnz(&mut self, address: usize) -> Option<u64>
jnz(m, address) ==
    Bind(pop(m), LAMBDA v :
        IF v.some
        THEN IF v.val # Zero THEN Some(jmp(v.m, address).m, Zero)
             ELSE Some(v.m, Zero)
        ELSE None(v.m))

\* fn halt(&mut self) -> Option<u64>
halt(m) == Some([m EXCEPT !.pc = Len(bin)], Zero)

\* int() as it would be if every popped value halted, not only 0.
int_any_halts(m) ==
    Bind(pop(m), LAMBDA v :
        IF v.some THEN Some(halt(v.m).m, Zero) ELSE None(v.m))

\* fn int(&mut self) -> Option<u64>
int(m) ==
    Bind(pop(m), LAMBDA v :
        IF v.some
        THEN IF v.val = Zero THEN Some(halt(v.m).m, Zero) ELSE Some(v.m, Zero)
        ELSE None(v.m))

(* ------------------------------------------------------------------ *)
(* The JIT                                                              *)
(* ------------------------------------------------------------------ *)

JitSupported == {"Push", "Pop", "Swap", "Uadd64", "Ret"}

\* `binary.value * 8` leaves u64 when value >= 2^61.
SwapDistOverflows(value) == value[4] >= 2^13

\* `(binary.value * 8) as i64` wrapped, in words: value mod 2^61.
SwapDist(value) == <<value[1], value[2], value[3], value[4] % (2^13)>>

\* The loop of jit() over the slice: "ok" when every record is lowered,
\* "err" at the first unsupported opcode (Err(CompileError)), "overflow" at
\* a Swap whose distance overflows in a build with overflow checks.
RECURSIVE JitScan(_, _, _)
JitScan(code, i, checks) ==
    IF i > Len(code) THEN "ok"
    ELSE IF TokenTypeFrom(code[i].opcode) \notin JitSupported THEN "err"
    ELSE IF /\ TokenTypeFrom(code[i].opcode) = "Swap"
            /\ SwapDistOverflows(code[i].value)
            /\ checks
         THEN "overflow"
    ELSE JitScan(code, i + 1, checks)

\* fn jit(&mut self, bin: Vec<ByteCode>) -> Result<(), CompileError>
\* asm_ok: Assembler::new() succeeds; map_ok: map_anon and make_exec succeed.
jit(m, code, asm_ok, map_ok, checks) ==
    IF ~asm_ok THEN m
    ELSE Bind(JitScan(code, 1, checks), LAMBDA scan :
             IF scan = "overflow" THEN [m EXCEPT !.abort = "overflow"]
             ELSE IF scan = "err" \/ ~map_ok THEN m
             ELSE [m EXCEPT
                     !.jit_memory_store = Append(@, code),
                     !.compiled_procs =
                         Insert(@, m.proc_pc, Len(m.jit_memory_store) + 1)])

\* What a native call gives: `defined` when it returns val to its caller as
\* the ABI requires. Otherwise the machine code has read or written its
\* return address or its caller's frame, jumped to a word that is no return
\* address, run off the end of the region, or returned with a callee-saved
\* register overwritten; `has` then says whether rax would hold val if the
\* function did come back.
Returned(defined, has, val) == [defined |-> defined, has |-> has, val |-> val]
Wild == Returned(FALSE, FALSE, Zero)

\* The machine code emitted for one Swap, on the words ms pushed so far.
NativeSwap(ms, d) ==
    [ms EXCEPT ![Len(ms)] = ms[Len(ms) - d], ![Len(ms) - d] = ms[Len(ms)]]

\* The machine code emitted for one record other than Ret, on the words ms
\* the function has pushed above its return address: the words afterwards,
\* or ok = FALSE when it reaches below them.
\*   Push v : mov rax, v; push rax        Pop : pop rcx
\*   Uadd64 : pop rax; pop rbx; add rax, rbx; push rax
\*   Swap k : exchange [rsp] and [rsp + 8k]
NativeStep(tt, value, ms) ==
    IF tt = "Push" THEN [ok |-> TRUE, ms |-> Append(ms, value)]
    ELSE IF tt = "Pop" /\ Len(ms) >= 1
         THEN [ok |-> TRUE, ms |-> SubSeq(ms, 1, Len(ms) - 1)]
    ELSE IF tt = "Uadd64" /\ Len(ms) >= 2
         THEN [ok |-> TRUE,
               ms |-> Append(SubSeq(ms, 1, Len(ms) - 2),
                             WAdd(ms[Len(ms)], ms[Len(ms) - 1]))]
    ELSE IF tt = "Swap" /\ SwapDist(value) = Zero THEN [ok |-> TRUE, ms |-> ms]
    ELSE IF tt = "Swap" /\ IsSmall(SwapDist(value)) /\ Small(SwapDist(value)) < Len(ms)
         THEN [ok |-> TRUE, ms |-> NativeSwap(ms, Small(SwapDist(value)))]
    ELSE [ok |-> FALSE, ms |-> ms]

\* The emitted machine code, run from its first byte as `func(ptr, pc)`.
\* clean: no callee-saved register (rbx, by Uadd64) has been overwritten.
\* Ret is `pop rax; ret`: it returns the one word pushed, if there is one.
RECURSIVE Native(_, _, _, _)
Native(code, i, ms, clean) ==
    IF i > Len(code) THEN Wild
    ELSE IF TokenTypeFrom(code[i].opcode) = "Ret"
         THEN IF Len(ms) = 1 THEN Returned(clean, TRUE, ms[1]) ELSE Wild
    ELSE Bind(NativeStep(TokenTypeFrom(code[i].opcode), code[i].value, ms),
              LAMBDA after :
                  IF ~after.ok THEN Wild
                  ELSE Native(code, i + 1, after.ms,
                              clean /\ TokenTypeFrom(code[i].opcode) # "Uadd64"))

\* What a native call whose behaviour is undefined may do.
UbOutcomes == {"crash", "garbage", "intended"}

\* The interpreted branch of call() as it would be if it set the count to
\* 1 at every call instead of adding to it.
Enter_recount(m, target) ==
    Bind([m EXCEPT !.funcs_used = Insert(@, target, 1)],
         LAMBDA counted :
    Bind(push(counted, Word(counted.sp)).m, LAMBDA p1 :
    Bind(push(p1, Word(p1.pc)).m, LAMBDA p2 :
        jmp([p2 EXCEPT !.proc_pc = target], target))))

\* The interpreted branch of call(): count, build the frame, jump.
Enter(m, target) ==
    Bind([m EXCEPT !.funcs_used =
              IF target \in DOMAIN @ THEN Insert(@, target, @[target] + 1)
              ELSE Insert(@, target, 1)],
         LAMBDA counted :
    Bind(push(counted, Word(counted.sp)).m, LAMBDA p1 :
    Bind(push(p1, Word(p1.pc)).m, LAMBDA p2 :
        jmp([p2 EXCEPT !.proc_pc = target], target))))

\* fn call(&mut self, pc: usize) -> Option<u64>
call(m, target, ub, garbage) ==
    IF target \in DOMAIN m.compiled_procs
    THEN Bind(Native(m.jit_memory_store[m.compiled_procs[target]], 1, <<>>, TRUE),
              LAMBDA r :
                  IF ~r.defined /\ ub = "crash" THEN Abort(m, "crash")
                  ELSE IF r.defined \/ (ub = "intended" /\ r.has)
                       THEN Some(push(m, r.val).m, Zero)
                  ELSE Some(push(m, garbage).m, Zero))
    ELSE Enter(m, target)

\* The promotion check of ret(): self.bin[self.proc_pc..self.pc + 1] panics
\* when proc_pc > pc + 1.
Promote(m, asm_ok, map_ok, checks) ==
    IF m.proc_pc \in DOMAIN m.funcs_used
       /\ m.funcs_used[m.proc_pc] = INTERPRETED_EXECUTIONS
    THEN IF WordGt(m.proc_pc, m.pc + 1) THEN [m EXCEPT !.abort = "slice"]
         ELSE jit(m, SubSeq(bin, Small(m.proc_pc) + 1, m.pc + 1),
                  asm_ok, map_ok, checks)
    ELSE m

\* The rest of ret() as it would be without the check of the saved sp
\* against stack.len().
Return_unchecked(m) ==
    Bind(pop(m), LAMBDA v :
    Bind(IF v.some THEN v.val ELSE Zero, LAMBDA retv :
    Bind(pop(v.m), LAMBDA p :
        IF ~p.some THEN None(p.m)
        ELSE IF WordGt(p.val, Len(bin)) THEN None(p.m)
        ELSE Bind(pop(p.m), LAMBDA s :
                 IF s.some
                 THEN Some(push([s.m EXCEPT !.sp = Small(s.val),
                                            !.pc = Small(p.val)], retv).m, Zero)
                 ELSE Some(push([s.m EXCEPT !.pc = Small(p.val)], retv).m, Zero)))))

\* The rest of ret(): pop the return value, the return pc and the saved sp.
Return(m) ==
    Bind(pop(m), LAMBDA v :
    Bind(IF v.some THEN v.val ELSE Zero, LAMBDA retv :
    Bind(pop(v.m), LAMBDA p :
        IF ~p.some THEN None(p.m)
        ELSE IF WordGt(p.val, Len(bin)) THEN None(p.m)
        ELSE Bind(pop(p.m), LAMBDA s :
                 IF s.some /\ WordGt(s.val, MAX_SIZE) THEN None(s.m)
                 ELSE IF s.some
                      THEN Some(push([s.m EXCEPT !.sp = Small(s.val),
                                                 !.pc = Small(p.val)], retv).m, Zero)
                 ELSE Some(push([s.m EXCEPT !.pc = Small(p.val)], retv).m, Zero)))))

\* fn ret(&mut self) -> Option<u64>
ret(m, asm_ok, map_ok, checks) ==
    Bind(Promote(m, asm_ok, map_ok, checks), LAMBDA promoted :
        IF promoted.abort # "" THEN None(promoted) ELSE Return(promoted))

(* ------------------------------------------------------------------ *)
(* eval and the run loop                                                *)
(* ------------------------------------------------------------------ *)

\* What the environment decides in one instruction: whether the assembler
\* and the executable mapping can be had, what an undefined native call
\* does, and the bits a float operation produces.
Env(asm_ok, map_ok, ub, garbage, fres) ==
    [asm_ok |-> asm_ok, map_ok |-> map_ok, ub |-> ub, garbage |-> garbage,
     fres |-> fres]

\* The type each integer opcode is dispatched at, as eval's match has it.
AddOps == [Uadd8 |-> "u8", Uadd16 |-> "u16", Uadd32 |-> "u32", Uadd64 |-> "u64",
           Add8 |-> "i8", Sub8 |-> "i8", Add16 |-> "i16", Add32 |-> "i32",
           Add64 |-> "i64"]
SubOps == [Usub8 |-> "u8", Usub16 |-> "u16", Usub32 |-> "u32", Usub64 |-> "u64",
           Sub16 |-> "i16", Sub32 |-> "i32", Sub64 |-> "i64"]
AddfOps == [Addf64 |-> "f64", Addf32 |-> "f32"]
SubfOps == [Subf64 |-> "f64", Subf32 |-> "f32"]

\* The match of eval(): the handler of each TokenType.
Dispatch(m, tt, value, env, checks) ==
    CASE tt = "Push" -> push(m, value)
      [] tt = "Pop" -> pop(m)
      [] tt \in DOMAIN AddOps -> add(m, AddOps[tt], checks)
      [] tt \in DOMAIN SubOps -> sub(m, SubOps[tt], checks)
      [] tt \in DOMAIN AddfOps -> addf(m, AddfOps[tt], env.fres)
      [] tt \in DOMAIN SubfOps -> subf(m, SubfOps[tt], env.fres)
      [] tt = "Prt" -> prt(m)
      [] tt = "Inc" -> inc(m, "u64")
      [] tt = "Dup" -> dup(m)
      [] tt = "Swap" -> swap(m, value)
      [] tt = "Jmp" -> jmp(m, value)
      [] tt = "Call" -> call(m, value, env.ub, env.garbage)
      [] tt = "Jmpp" -> jmpp(m)
      [] tt = "Cmp" -> cmp(m, checks)
      [] tt = "Halt" -> halt(m)
      [] tt = "Ret" -> ret(m, env.asm_ok, env.map_ok, checks)
      [] tt = "Jeq" -> jeq(m, value)
      [] tt = "Jnz" -> jnz(m, value)
      [] tt = "Int" -> int(m)
      [] OTHER -> None(m)

\* fn eval(&mut self, binary: ByteCode) -> Option<u64>
eval(m, binary, env, checks) ==
    Bind(Dispatch(m, TokenTypeFrom(binary.opcode), binary.value, env, checks),
         LAMBDA result :
             IF result.m.should_increment_pc
             THEN [result EXCEPT !.m.pc = @ + 1]
             ELSE result)

\* The instruction run() fetches next, and its kind.
Fetched == bin[pc + 1]
FetchedKind == TokenTypeFrom(Fetched.opcode)

\* The loop condition as it would be without the `break` on None.
Running_past_none == status \in {"running", "failed"} /\ pc < Len(bin)

\* The loop of run() goes on: no None so far and pc < bin.len().
Running == status = "running" /\ pc < Len(bin)

\* The VM after an instruction that gave r. A panic or a crash ends the
\* process: the VM is left as it was before the instruction and status says
\* how it ended. None breaks the loop of run(): status "failed".
Commit(r) ==
    IF r.m.abort # ""
    THEN /\ status' = r.m.abort
         /\ UNCHANGED <<pc, stack, sp, proc_pc, should_increment_pc,
                        funcs_used, compiled_procs, jit_memory_store>>
    ELSE /\ status' = IF r.some THEN "running" ELSE "failed"
         /\ pc' = r.m.pc
         /\ stack' = r.m.stack
         /\ sp' = r.m.sp
         /\ proc_pc' = r.m.proc_pc
         /\ should_increment_pc' = r.m.should_increment_pc
         /\ funcs_used' = r.m.funcs_used
         /\ compiled_procs' = r.m.compiled_procs
         /\ jit_memory_store' = r.m.jit_memory_store

\* One iteration of the loop of run(): fetch, eval, break on None.
Iterate(env) ==
    /\ Running
    /\ steps < MaxSteps
    /\ steps' = steps + 1
    /\ UNCHANGED <<bin, overflow_checks>>
    /\ UNCHANGED tool
    /\ Commit(eval([Self EXCEPT !.should_increment_pc = TRUE], Fetched, env,
                   overflow_checks))

(* ------------------------------------------------------------------ *)
(* Inputs: the programs a run may be given                              *)
(* ------------------------------------------------------------------ *)

\* Operand words: small values, the edges of every integer width, a
\* surrogate (no Unicode scalar) and the 64-bit extremes.
SampleWords ==
    {Zero, Word(1), Word(5), Word(7), Word(10), Word(49), Word(128), Word(255),
     Word(55296), I64Min, U64Max}

\* Immediates of the instruction under test.
ImmWords == {Zero, Word(1), Word(3), U64Max}

\* Opcode bytes: every TokenType and a byte past Err.
OpcodeBytes == 0..(Len(TokenType) - 1) \cup {255}

UsesImmediate == {"Push", "Jmp", "Call", "Jeq", "Jnz", "Swap"}

\* One instruction of every kind, with every immediate where it is read.
AnyInstr ==
    {[opcode |-> b, value |-> v] : b \in OpcodeBytes, v \in ImmWords}
    \ {[opcode |-> b, value |-> v] :
         b \in {c \in OpcodeBytes : TokenTypeFrom(c) \notin UsesImmediate},
         v \in ImmWords \ {Zero}}

\* push b, push a, then any instruction.
OperandPrograms ==
    {<<ByteCode("Push", b), ByteCode("Push", a), i>> :
        b \in SampleWords, a \in SampleWords, i \in AnyInstr}

\* A small instruction set whose every sequence up to MaxProgLen is run.
GenInstrs ==
    {ByteCode("Push", Zero), ByteCode("Push", Word(2)), ByteCode("Push", U64Max),
     ByteCode("Pop", Zero), ByteCode("Dup", Zero), ByteCode("Swap", Word(1)),
     ByteCode("Call", Word(2)), ByteCode("Ret", Zero), ByteCode("Jmpp", Zero),
     ByteCode("Jnz", Zero), ByteCode("Uadd64", Zero), ByteCode("Halt", Zero)}

GenPrograms == UNION {[1..n -> GenInstrs] : n \in 0..MaxProgLen}

\* push x call sq halt sq: dup uadd64 ret
SqProgram(x) ==
    <<ByteCode("Push", x), ByteCode("Call", Word(3)), ByteCode("Halt", Zero),
      ByteCode("Dup", Zero), ByteCode("Uadd64", Zero), ByteCode("Ret", Zero)>>

\* push x call f halt f: push r ret
CallRetProgram(x, r) ==
    <<ByteCode("Push", x), ByteCode("Call", Word(3)), ByteCode("Halt", Zero),
      ByteCode("Push", r), ByteCode("Ret", Zero)>>

\* call f halt f: call g ret halt g: push 9 ret
NestedProgram ==
    <<ByteCode("Call", Word(2)), ByteCode("Halt", Zero), ByteCode("Call", Word(5)),
      ByteCode("Ret", Zero), ByteCode("Halt", Zero), ByteCode("Push", Word(9)),
      ByteCode("Ret", Zero)>>

\* call f r: ret halt f: push 1 jmp r
JumpOutProgram ==
    <<ByteCode("Call", Word(3)), ByteCode("Ret", Zero), ByteCode("Halt", Zero),
      ByteCode("Push", Word(1)), ByteCode("Jmp", Word(1))>>

\* push 3 call f push 3 call f halt f: <body> ret
TwiceProgram(body) ==
    <<ByteCode("Push", Word(3)), ByteCode("Call", Word(5)),
      ByteCode("Push", Word(3)), ByteCode("Call", Word(5)),
      ByteCode("Halt", Zero)>> \o body \o <<ByteCode("Ret", Zero)>>

ProcBodies ==
    {<<ByteCode("Push", Word(4)), ByteCode("Uadd64", Zero)>>,
     <<ByteCode("Push", Word(4))>>,
     <<ByteCode("Push", Word(4)), ByteCode("Push", Word(3)), ByteCode("Uadd64", Zero)>>,
     <<ByteCode("Push", Word(4)), ByteCode("Push", Word(5)), ByteCode("Swap", Word(1)),
       ByteCode("Pop", Zero)>>,
     <<ByteCode("Push", Word(4)), ByteCode("Inc", Zero)>>,
     <<>>}

\* push x push y cmp <jeq|jnz> eq push 1 halt eq: push 0 halt
CondProgram(x, y, branch) ==
    <<ByteCode("Push", x), ByteCode("Push", y), ByteCode("Cmp", Zero),
      ByteCode(branch, Word(6)), ByteCode("Push", Word(1)), ByteCode("Halt", Zero),
      ByteCode("Push", Zero), ByteCode("Halt", Zero)>>

\* push t jmpp halt push 1 halt
JmppProgram(t) ==
    <<ByteCode("Push", t), ByteCode("Jmpp", Zero), ByteCode("Halt", Zero),
      ByteCode("Push", Word(1)), ByteCode("Halt", Zero)>>

\* push 49 push 10 sub64 push 11 add64 prt halt
CharProgram ==
    <<ByteCode("Push", Word(49)), ByteCode("Push", Word(10)), ByteCode("Sub64", Zero),
      ByteCode("Push", Word(11)), ByteCode("Add64", Zero), ByteCode("Prt", Zero),
      ByteCode("Halt", Zero)>>

\* call f jmp l f: push 1 ret swap 2^64-1 l: dup ret
\* (the Swap is never executed; the second Ret runs with proc_pc still f)
DeadSwapProgram ==
    <<ByteCode("Call", Word(2)), ByteCode("Jmp", Word(5)), ByteCode("Push", Word(1)),
      ByteCode("Ret", Zero), ByteCode("Swap", U64Max), ByteCode("Dup", Zero),
      ByteCode("Ret", Zero)>>

\* push 1 push 2 push 3 push 4 swap k swap k halt
SwapProgram(k) ==
    <<ByteCode("Push", Word(1)), ByteCode("Push", Word(2)), ByteCode("Push", Word(3)),
      ByteCode("Push", Word(4)), ByteCode("Swap", k), ByteCode("Swap", k),
      ByteCode("Halt", Zero)>>

\* Swap distances: inside the four words pushed, at their edge and past it.
SwapWords == {Zero, Word(1), Word(2), Word(3), Word(4), Word(65536), U64Max}

Programs ==
    OperandPrograms \cup GenPrograms
    \cup {SwapProgram(k) : k \in SwapWords}
    \cup {SqProgram(x) : x \in SampleWords}
    \cup {CallRetProgram(x, r) : x \in SampleWords, r \in SampleWords}
    \cup {NestedProgram, JumpOutProgram, CharProgram, DeadSwapProgram}
    \cup {TwiceProgram(body) : body \in ProcBodies}
    \cup {CondProgram(x, y, br) : x \in SampleWords, y \in SampleWords,
                                  br \in {"Jeq", "Jnz"}}
    \cup {JmppProgram(t) : t \in ImmWords}

(* ------------------------------------------------------------------ *)
(* The specification                                                    *)
(* ------------------------------------------------------------------ *)

\* VM::new(bin), built with or without overflow checks.
Init ==
    /\ bin \in Programs
    /\ overflow_checks \in BOOLEAN
    /\ pc = 0
    /\ stack = [i \in 0..(MAX_SIZE - 1) |-> Zero]
    /\ sp = 0
    /\ proc_pc = Zero
    /\ should_increment_pc = TRUE
    /\ funcs_used = [k \in {} |-> 0]
    /\ compiled_procs = [k \in {} |-> 0]
    /\ jit_memory_store = <<>>
    /\ status = "running"
    /\ steps = 0
    /\ source = <<>>
    /\ byts = NotYet
    /\ file = NotYet
    /\ loaded = NotYet

Quiet == Env(TRUE, TRUE, "crash", Zero, Zero)

\* Bits a float operation may produce, and words a wild native call may return.
FloatResults == {Zero, Word(1), U64Max}
GarbageWords == {Zero, U64Max}

DoPush == Running /\ FetchedKind = "Push" /\ Iterate(Quiet)
DoPop == Running /\ FetchedKind = "Pop" /\ Iterate(Quiet)
DoAdd == Running /\ FetchedKind \in DOMAIN AddOps /\ Iterate(Quiet)
DoSub == Running /\ FetchedKind \in DOMAIN SubOps /\ Iterate(Quiet)
DoAddf ==
    /\ Running /\ FetchedKind \in DOMAIN AddfOps
    /\ \E fres \in FloatResults : Iterate(Env(TRUE, TRUE, "crash", Zero, fres))
DoSubf ==
    /\ Running /\ FetchedKind \in DOMAIN SubfOps
    /\ \E fres \in FloatResults : Iterate(Env(TRUE, TRUE, "crash", Zero, fres))
DoPrt == Running /\ FetchedKind = "Prt" /\ Iterate(Quiet)
DoInc == Running /\ FetchedKind = "Inc" /\ Iterate(Quiet)
DoDup == Running /\ FetchedKind = "Dup" /\ Iterate(Quiet)
DoSwap == Running /\ FetchedKind = "Swap" /\ Iterate(Quiet)
DoJmp == Running /\ FetchedKind = "Jmp" /\ Iterate(Quiet)
DoCall ==
    /\ Running /\ FetchedKind = "Call"
    /\ \E ub \in UbOutcomes, garbage \in GarbageWords :
          Iterate(Env(TRUE, TRUE, ub, garbage, Zero))
DoJmpp == Running /\ FetchedKind = "Jmpp" /\ Iterate(Quiet)
DoCmp == Running /\ FetchedKind = "Cmp" /\ Iterate(Quiet)
DoHalt == Running /\ FetchedKind = "Halt" /\ Iterate(Quiet)
DoRet ==
    /\ Running /\ FetchedKind = "Ret"
    /\ \E asm_ok \in BOOLEAN, map_ok \in BOOLEAN :
          Iterate(Env(asm_ok, map_ok, "crash", Zero, Zero))
DoJeq == Running /\ FetchedKind = "Jeq" /\ Iterate(Quiet)
DoJnz == Running /\ FetchedKind = "Jnz" /\ Iterate(Quiet)
DoInt == Running /\ FetchedKind = "Int" /\ Iterate(Quiet)
DoErr ==
    /\ Running /\ FetchedKind \in {"Value", "Label", "Name", "Err"}
    /\ Iterate(Quiet)

\* The loop of run() ends: pc >= bin.len().
RunExit ==
    /\ status = "running"
    /\ pc >= Len(bin)
    /\ status' = "exited"
    /\ UNCHANGED <<bin, pc, stack, sp, proc_pc, should_increment_pc, funcs_used,
                   compiled_procs, jit_memory_store, overflow_checks, steps>>
    /\ UNCHANGED tool

Next ==
    \/ DoPush \/ DoPop \/ DoAdd \/ DoSub \/ DoAddf \/ DoSubf \/ DoPrt \/ DoInc
    \/ DoDup \/ DoSwap \/ DoJmp \/ DoCall \/ DoJmpp \/ DoCmp \/ DoHalt \/ DoRet
    \/ DoJeq \/ DoJnz \/ DoInt \/ DoErr \/ RunExit

Spec == Init /\ [][Next]_vars

(* ------------------------------------------------------------------ *)
(* The assembler (compiler.rs)                                          *)
(* ------------------------------------------------------------------ *)

\* A token's text is the sequence of its characters.
Digits == {"0", "1", "2", "3", "4", "5", "6", "7", "8", "9"}
DigitValue(c) ==
    CASE c = "0" -> 0 [] c = "1" -> 1 [] c = "2" -> 2 [] c = "3" -> 3
      [] c = "4" -> 4 [] c = "5" -> 5 [] c = "6" -> 6 [] c = "7" -> 7
      [] c = "8" -> 8 [] c = "9" -> 9

\* val.ends_with(':') and trim_end_matches(':')
EndsWithColon(text) == Len(text) >= 1 /\ text[Len(text)] = ":"
RECURSIVE TrimColons(_)
TrimColons(text) ==
    IF EndsWithColon(text) THEN TrimColons(SubSeq(text, 1, Len(text) - 1))
    ELSE text

\* Decimal digits, and their value (the sources drawn stay below 2^31, so
\* the overflow case of parse never arises).
IsDigits(text) == Len(text) >= 1 /\ \A i \in 1..Len(text) : text[i] \in Digits
RECURSIVE DecimalValue(_)
DecimalValue(text) ==
    IF text = <<>> THEN 0
    ELSE 10 * DecimalValue(SubSeq(text, 1, Len(text) - 1))
           + DigitValue(text[Len(text)])

\* str::parse::<u64>: an optional '+', then digits.
Unsigned(text) ==
    IF Len(text) >= 1 /\ text[1] = "+" THEN SubSeq(text, 2, Len(text)) ELSE text
IsU64(text) == IsDigits(Unsigned(text))
ParseU64(text) == Word(DecimalValue(Unsigned(text)))

\* str::parse::<i64>: an optional '+' or '-', then digits; `as u64` of a
\* negative value is its two's complement.
IsI64(text) ==
    \/ IsU64(text)
    \/ Len(text) >= 1 /\ text[1] = "-" /\ IsDigits(SubSeq(text, 2, Len(text)))
ParseI64(text) ==
    IF text[1] = "-" THEN WSub(Zero, Word(DecimalValue(SubSeq(text, 2, Len(text)))))
    ELSE ParseU64(text)

\* The match on text of Token::new: the kind of a mnemonic, "" for others.
Mnemonic(text) ==
    CASE text = <<"p", "u", "s", "h">> -> "Push"
      [] text = <<"p", "o", "p">> -> "Pop"
      [] text = <<"u", "a", "d", "d", "8">> -> "Uadd8"
      [] text = <<"u", "s", "u", "b", "8">> -> "Usub8"
      [] text = <<"u", "a", "d", "d", "1", "6">> -> "Uadd16"
      [] text = <<"u", "s", "u", "b", "1", "6">> -> "Usub16"
      [] text = <<"u", "a", "d", "d", "3", "2">> -> "Uadd32"
      [] text = <<"u", "s", "u", "b", "3", "2">> -> "Usub32"
      [] text = <<"u", "a", "d", "d", "6", "4">> -> "Uadd64"
      [] text = <<"u", "s", "u", "b", "6", "4">> -> "Usub64"
      [] text = <<"a", "d", "d", "8">> -> "Add8"
      [] text = <<"s", "u", "b", "8">> -> "Sub8"
      [] text = <<"a", "d", "d", "1", "6">> -> "Add16"
      [] text = <<"s", "u", "b", "1", "6">> -> "Sub16"
      [] text = <<"a", "d", "d", "3", "2">> -> "Add32"
      [] text = <<"s", "u", "b", "3", "2">> -> "Sub32"
      [] text = <<"a", "d", "d", "6", "4">> -> "Add64"
      [] text = <<"s", "u", "b", "6", "4">> -> "Sub64"
      [] text = <<"a", "d", "d", "f", "6", "4">> -> "Addf64"
      [] text = <<"s", "u", "b", "f", "6", "4">> -> "Subf64"
      [] text = <<"a", "d", "d", "f", "3", "2">> -> "Addf32"
      [] text = <<"s", "u", "b", "f", "3", "2">> -> "Subf32"
      [] text = <<"p", "r", "t">> -> "Prt"
      [] text = <<"i", "n", "c">> -> "Inc"
      [] text = <<"d", "u", "p">> -> "Dup"
      [] text = <<"j", "m", "p">> -> "Jmp"
      [] text = <<"c", "a", "l", "l">> -> "Call"
      [] text = <<"j", "m", "p", "p">> -> "Jmpp"
      [] text = <<"j", "e", "q">> -> "Jeq"
      [] text = <<"j", "n", "z">> -> "Jnz"
      [] text = <<"c", "m", "p">> -> "Cmp"
      [] text = <<"h", "a", "l", "t">> -> "Halt"
      [] text = <<"i", "n", "t">> -> "Int"
      [] text = <<"s", "w", "a", "p">> -> "Swap"
      [] text = <<"r", "e", "t">> -> "Ret"
      [] OTHER -> ""

\* Token::new(text). Every text that parses as u64 or i64 parses as f64
\* too; the sources drawn hold no other float literal.
TokenNew(text) ==
    [value |-> text,
     kind |-> IF Mnemonic(text) # "" THEN Mnemonic(text)
              ELSE IF EndsWithColon(text) THEN "Label"
              ELSE IF IsU64(text) \/ IsI64(text) THEN "Value"
              ELSE "Name"]

\* u64::to_string: the decimal digits of n.
DigitText(d) ==
    CASE d = 0 -> "0" [] d = 1 -> "1" [] d = 2 -> "2" [] d = 3 -> "3"
      [] d = 4 -> "4" [] d = 5 -> "5" [] d = 6 -> "6" [] d = 7 -> "7"
      [] d = 8 -> "8" [] d = 9 -> "9"
RECURSIVE to_string(_)
to_string(n) ==
    IF n < 10 THEN <<DigitText(n)>>
    ELSE Append(to_string(n \div 10), DigitText(n % 10))

\* Option<T> as a record.
Given(val) == [called |-> TRUE, some |-> TRUE, val |-> val]
Nothing == [called |-> TRUE, some |-> FALSE, val |-> <<>>]

\* The kinds parse_code does not count as an instruction.
Uncounted == {"Value", "Name", "Label", "Err"}

\* The first loop of parse_code, from word i on: a word ending in ':' is
\* entered in labels under its name with the count pos of instructions so
\* far; any other becomes a token, and counts unless its kind is Uncounted.
RECURSIVE Lex(_, _, _, _, _)
Lex(words, i, tokens, labels, pos) ==
    IF i > Len(words) THEN [tokens |-> tokens, labels |-> labels]
    ELSE IF EndsWithColon(words[i])
         THEN Lex(words, i + 1, tokens,
                  Insert(labels, TrimColons(words[i]), to_string(pos)), pos)
    ELSE Lex(words, i + 1, Append(tokens, TokenNew(words[i])), labels,
             IF TokenNew(words[i]).kind \in Uncounted THEN pos ELSE pos + 1)

\* The second loop of parse_code, from token i on: a Name found in labels
\* takes the label's text as its value; one not found, and no u64, ends
\* parse_code with None.
RECURSIVE Resolve(_, _, _)
Resolve(tokens, labels, i) ==
    IF i > Len(tokens) THEN Given(tokens)
    ELSE IF tokens[i].kind # "Name" THEN Resolve(tokens, labels, i + 1)
    ELSE IF tokens[i].value \in DOMAIN labels
         THEN Resolve([tokens EXCEPT ![i].value = labels[tokens[i].value]],
                      labels, i + 1)
    ELSE IF ~IsU64(tokens[i].value) THEN Nothing
    ELSE Resolve(tokens, labels, i + 1)

\* The end of parse_code: halt is added unless the last token is one.
WithHalt(tokens) ==
    IF tokens # <<>> /\ tokens[Len(tokens)].kind # "Halt"
    THEN Append(tokens, TokenNew(<<"h", "a", "l", "t">>))
    ELSE tokens

\* fn parse_code(code: &str) -> Option<Vec<Token>>
parse_code(words) ==
    Bind(Lex(words, 1, <<>>, [k \in {} |-> <<>>], 0), LAMBDA lexed :
    Bind(Resolve(lexed.tokens, lexed.labels, 1), LAMBDA resolved :
        IF resolved.some THEN Given(WithHalt(resolved.val)) ELSE Nothing))

\* ByteCode::new(inst, Some(Data::Token(tok))): the operand parsed as u64,
\* else as i64 (the sources drawn hold no float literal).
ByteCodeNew(inst, tok) ==
    IF IsU64(tok.value) THEN Given(ByteCode(inst.kind, ParseU64(tok.value)))
    ELSE IF IsI64(tok.value) THEN Given(ByteCode(inst.kind, ParseI64(tok.value)))
    ELSE Nothing

\* The kinds whose arm in byte_code_compiler takes the next token as operand.
TakesOperand == {"Push", "Jmp", "Jeq", "Jnz", "Swap", "Call"}

\* The loop of byte_code_compiler, from token i on.
RECURSIVE Emit(_, _, _)
Emit(tokens, i, out) ==
    IF i > Len(tokens) THEN Given(out)
    ELSE IF tokens[i].kind \in TakesOperand
         THEN IF i + 1 > Len(tokens) THEN Nothing
              ELSE Bind(ByteCodeNew(tokens[i], tokens[i + 1]), LAMBDA byt :
                       IF byt.some THEN Emit(tokens, i + 2, Append(out, byt.val))
                       ELSE Nothing)
    ELSE IF tokens[i].kind \in {"Value", "Err"} THEN Nothing
    ELSE Emit(tokens, i + 1, Append(out, ByteCode(tokens[i].kind, Zero)))

\* fn byte_code_compiler(code: &str) -> Option<Vec<ByteCode>>: when
\* parse_code gives None the loop is skipped and Some(byts) is returned
\* with byts empty.
byte_code_compiler(words) ==
    Bind(parse_code(words), LAMBDA partial_tokens :
        IF partial_tokens.some THEN Emit(partial_tokens.val, 1, <<>>)
        ELSE Given(<<>>))

(* ------------------------------------------------------------------ *)
(* The .bin codec (compiler.rs)                                         *)
(* ------------------------------------------------------------------ *)

\* u64::to_be_bytes, as a writer of the wrong byte order would use.
to_be_bytes(w) ==
    <<w[4] \div 256, w[4] % 256, w[3] \div 256, w[3] % 256,
      w[2] \div 256, w[2] % 256, w[1] \div 256, w[1] % 256>>

\* u64::to_le_bytes and u64::from_le_bytes on a word of four 16-bit limbs.
to_le_bytes(w) ==
    <<w[1] % 256, w[1] \div 256, w[2] % 256, w[2] \div 256,
      w[3] % 256, w[3] \div 256, w[4] % 256, w[4] \div 256>>
from_le_bytes(b) ==
    <<b[1] + 256 * b[2], b[3] + 256 * b[4], b[5] + 256 * b[6], b[7] + 256 * b[8]>>

\* ByteCode::write_to_bin: the opcode byte, then the value.
write_to_bin(byt) == <<byt.opcode>> \o to_le_bytes(byt.value)

\* The loop of write_bin, from record i on.
RECURSIVE WriteRecords(_, _)
WriteRecords(program, i) ==
    IF i > Len(program) THEN <<>>
    ELSE write_to_bin(program[i]) \o WriteRecords(program, i + 1)

\* pub fn write_bin(path, bin): the count of records as a u64, then the
\* records; Err when the file cannot be created.
write_bin(program, created) ==
    IF ~created THEN Nothing
    ELSE Given(to_le_bytes(Word(Len(program))) \o WriteRecords(program, 1))

\* ByteCode::read_from_bin at offset at (the bytes are there).
read_from_bin(bytes, at) ==
    [opcode |-> bytes[at + 1], value |-> from_le_bytes(SubSeq(bytes, at + 2, at + 9))]

\* The loop of read_bin: n records more from offset at; Err (read_exact
\* fails) when fewer than 9 bytes are left.
RECURSIVE ReadRecords(_, _, _, _)
ReadRecords(bytes, at, n, out) ==
    IF n = 0 THEN Given(out)
    ELSE IF at + 9 > Len(bytes) THEN Nothing
    ELSE ReadRecords(bytes, at + 9, n - 1, Append(out, read_from_bin(bytes, at)))

\* pub fn read_bin(path): the count, then that many records. A count of
\* 2^16 or more asks for more bytes than any file drawn here holds.
read_bin(bytes) ==
    IF Len(bytes) < 8 THEN Nothing
    ELSE Bind(from_le_bytes(SubSeq(bytes, 1, 8)), LAMBDA len :
             IF ~IsSmall(len) THEN Nothing
             ELSE ReadRecords(bytes, 8, Small(len), <<>>))

(* ------------------------------------------------------------------ *)
(* Inputs and specification of the toolchain                            *)
(* ------------------------------------------------------------------ *)

\* The words a source is made of: mnemonics with and without operand,
\* numbers, a label l with its definition, and a name m defined nowhere.
Vocabulary ==
    {<<"p", "u", "s", "h">>, <<"p", "o", "p">>, <<"h", "a", "l", "t">>,
     <<"j", "m", "p">>, <<"1">>, <<"-", "1">>, <<"l", ":">>, <<"l">>, <<"m">>}

MaxWords == 4

RECURSIVE SourcesOf(_)
SourcesOf(n) ==
    IF n = 0 THEN {<<>>}
    ELSE LET shorter == SourcesOf(n - 1)
         IN shorter \cup {Append(t, w) : t \in {u \in shorter : Len(u) = n - 1},
                                         w \in Vocabulary}
Sources == SourcesOf(MaxWords)

\* Records of any opcode byte and value, as a .bin file may hold.
RawRecords ==
    {[opcode |-> o, value |-> v] :
        o \in {0, 28, 37, 255},
        v \in {Zero, Word(258), <<513, 1027, 1541, 2055>>, U64Max}}
RECURSIVE RawProgramsOf(_)
RawProgramsOf(n) ==
    IF n = 0 THEN {<<>>}
    ELSE LET shorter == RawProgramsOf(n - 1)
         IN shorter \cup {Append(t, r) : t \in {u \in shorter : Len(u) = n - 1},
                                         r \in RawRecords}
RawPrograms == RawProgramsOf(MaxProgLen)

\* startup() of main.rs given a source file, or write_bin given a program.
ToolInit ==
    /\ \/ source \in Sources /\ bin = <<>>
       \/ source = <<>> /\ bin \in RawPrograms
    /\ overflow_checks = FALSE
    /\ pc = 0
    /\ stack = [i \in 0..(MAX_SIZE - 1) |-> Zero]
    /\ sp = 0
    /\ proc_pc = Zero
    /\ should_increment_pc = TRUE
    /\ funcs_used = [k \in {} |-> 0]
    /\ compiled_procs = [k \in {} |-> 0]
    /\ jit_memory_store = <<>>
    /\ status = "startup"
    /\ steps = 0
    /\ byts = NotYet
    /\ file = NotYet
    /\ loaded = NotYet

VMIdle ==
    UNCHANGED <<pc, stack, sp, proc_pc, should_increment_pc, funcs_used,
                compiled_procs, jit_memory_store, status, overflow_checks, steps>>

\* compile_file(&file_path): the source is read and assembled.
CompileFile ==
    /\ ~byts.called
    /\ byts' = byte_code_compiler(source)
    /\ UNCHANGED <<bin, source, file, loaded>>
    /\ VMIdle

\* main.rs: `if let Some(bytecode) = bin` the program is written to the .bin
\* file and, when that went well, handed to VM::new.
WriteCompiled ==
    /\ byts.called /\ byts.some
    /\ ~file.called
    /\ \E created \in BOOLEAN :
          /\ file' = write_bin(byts.val, created)
          /\ bin' = IF created THEN byts.val ELSE bin
    /\ UNCHANGED <<source, byts, loaded>>
    /\ VMIdle

\* write_bin on a program that did not come from the assembler.
WriteGiven ==
    /\ ~byts.called
    /\ ~file.called
    /\ \E created \in BOOLEAN : file' = write_bin(bin, created)
    /\ UNCHANGED <<bin, source, byts, loaded>>
    /\ VMIdle

\* read_bin on the file written.
ReadBin ==
    /\ file.called /\ file.some
    /\ ~loaded.called
    /\ loaded' = read_bin(file.val)
    /\ UNCHANGED <<bin, source, byts, file>>
    /\ VMIdle

ToolNext == CompileFile \/ WriteCompiled \/ WriteGiven \/ ReadBin

ToolSpec == ToolInit /\ [][ToolNext]_vars

(* ------------------------------------------------------------------ *)
(* Properties                                                           *)
(* ------------------------------------------------------------------ *)

\* The word on top of the stack (sp >= 1).
Top == stack[sp - 1]

\* The process has not ended in a panic or a crash.
Alive == status \notin Ended

\* The frame header of a Call made at index P with sp = S lies at S, S + 1:
\* the saved sp S, then a return pc P where the program has a Call that
\* has been counted as interpreted.
FrameHeaderAt(S) ==
    /\ S \in 0..(MAX_SIZE - 2)
    /\ stack[S] = Word(S)
    /\ IsSmall(stack[S + 1])
    /\ Small(stack[S + 1]) < Len(bin)
    /\ TokenTypeFrom(bin[Small(stack[S + 1]) + 1].opcode) = "Call"
    /\ bin[Small(stack[S + 1]) + 1].value \in DOMAIN funcs_used

\* Ret is about to run with an intact frame header and exactly one return
\* value above it.
RetOnIntactFrame ==
    /\ Running
    /\ FetchedKind = "Ret"
    /\ sp >= 3
    /\ FrameHeaderAt(sp - 3)

\* C1: when the callee of an interpreted Call made at index P with sp = S
\* reaches Ret with the frame header (S at stack[S], P at stack[S+1]) intact
\* and exactly one return value r above it, then after that Ret the header
\* is gone, stack[S] = r, sp = S + 1 and pc = P + 1.
C1_RetReturnsToCaller ==
    [][RetOnIntactFrame =>
          /\ status' = "running"
          /\ sp' = (sp - 3) + 1
          /\ stack'[sp - 3] = stack[sp - 1]
          /\ pc' = Small(stack[sp - 2]) + 1]_vars

\* The program of the call/ret scenario, and its argument x.
IsSq == Len(bin) = 6 /\ bin = SqProgram(bin[1].value)
SqArg == bin[1].value

C3_SpInBounds == sp \in 0..MAX_SIZE /\ status # "index"

\* Ret has popped a saved sp of 49 > MAX_SIZE and refused to restore it.
C3_Witness ==
    /\ bin = SqProgram(Word(49))
    /\ status = "failed"
    /\ sp = 0

\* C4: at every instruction boundary 0 <= pc <= len(program), and a run
\* that stops by executing Halt (or Int with popped value 0) ends in the
\* halted state pc = len(program).
C4_PcInBounds ==
    /\ pc \in 0..Len(bin)
    /\ status = "exited" => pc = Len(bin)

\* The width of each integer subtraction and addition opcode.
SubWidth == [Usub8 |-> 8, Usub16 |-> 16, Usub32 |-> 32, Usub64 |-> 64,
             Sub8 |-> 8, Sub16 |-> 16, Sub32 |-> 32, Sub64 |-> 64]
AddWidth == [Uadd8 |-> 8, Uadd16 |-> 16, Uadd32 |-> 32, Uadd64 |-> 64,
             Add8 |-> 8, Add16 |-> 16, Add32 |-> 32, Add64 |-> 64]

\* The instruction fetched is of one of the kinds given and finds two
\* operands: a on top and b below it.
BinaryOn(kinds) == Running /\ FetchedKind \in kinds /\ sp >= 2

\* C5: every integer subtraction opcode (Usub8..Usub64, Sub8..Sub64), on a
\* stack with top a and next word b, pops both and pushes b - a computed at
\* its width; Sub8 as the other widths. A step that stops on arithmetic
\* overflow is left aside here: the step either stops so or leaves b - a.
C5_SubPushesDifference ==
    [][BinaryOn(DOMAIN SubWidth) =>
          \/ status' = "overflow"
          \/ /\ status' = "running"
             /\ sp' = sp - 1
             /\ Trunc(SubWidth[FetchedKind], stack'[sp - 2])
                  = Trunc(SubWidth[FetchedKind],
                          WSub(stack[sp - 2], stack[sp - 1]))]_vars

\* C6: for every width w in {8, 16, 32, 64}, signed or unsigned, and all
\* operand words a and b, the addition opcode of width w never fails on
\* arithmetic overflow and pushes a word whose low w bits are
\* (a + b) mod 2^w.
C6_AddWraps ==
    [][BinaryOn(DOMAIN AddWidth) =>
          /\ status' = "running"
          /\ sp' = sp - 1
          /\ Trunc(AddWidth[FetchedKind], stack'[sp - 2])
               = Trunc(AddWidth[FetchedKind],
                       WAdd(stack[sp - 2], stack[sp - 1]))]_vars

\* C7: Cmp pops a (the top) and then b and pushes b - a as a wrapping
\* two's-complement 64-bit value, for all words a and b, and never fails
\* on overflow.
C7_CmpPushesNextMinusTop ==
    [][BinaryOn({"Cmp"}) =>
          /\ status' = "running"
          /\ sp' = sp - 1
          /\ stack'[sp - 2] = WSub(stack[sp - 2], stack[sp - 1])]_vars

\* A conditional branch with an operand and a target inside the program;
\* whether it is taken.
BranchOn == 
    /\ Running
    /\ FetchedKind \in {"Jeq", "Jnz"}
    /\ sp >= 1
    /\ ~WordGe(Fetched.value, Len(bin))
BranchTaken == (FetchedKind = "Jeq") <=> (Top = Zero)

\* The program `push x push y cmp jeq/jnz L push 1 halt L: push 0 halt`.
IsCond ==
    /\ Len(bin) = 8
    /\ bin[4].opcode \in {Ord("Jeq"), Ord("Jnz")}
    /\ bin = CondProgram(bin[1].value, bin[2].value, TokenTypeFrom(bin[4].opcode))
CondEqual == bin[1].value = bin[2].value
CondKind == TokenTypeFrom(bin[4].opcode)

\* C8: with addr < len(program), Jeq addr pops exactly one word v and the
\* next instruction is at addr if v = 0 and at pc + 1 otherwise; Jnz addr
\* branches iff v # 0. So `push x push y cmp jeq L` reaches L iff x = y, and
\* `push 5 push 5 cmp jeq eq push 1 halt eq: push 0 halt` ends with top 0.
C8_ConditionalBranch ==
    /\ [][BranchOn =>
             /\ status' = "running"
             /\ sp' = sp - 1
             /\ stack' = stack
             /\ pc' = IF BranchTaken THEN Small(Fetched.value) ELSE pc + 1]_vars
    /\ [](IsCond =>
             /\ pc \in {6, 7} => (CondEqual <=> CondKind = "Jeq")
             /\ pc \in {4, 5} => (CondEqual <=> CondKind = "Jnz")
             /\ (status = "exited" /\ CondKind = "Jeq" /\ CondEqual)
                   => (sp = 1 /\ Top = Zero))

\* The scenario `push 5 push 5 cmp jeq eq ...` has taken its branch and
\* halted with 0 on top.
C8_Witness ==
    /\ bin = CondProgram(Word(5), Word(5), "Jeq")
    /\ status = "exited"
    /\ sp = 1
    /\ Top = Zero

\* C9: Jmpp pops addr and, when addr < len(program), sets pc = addr, so
\* that the next instruction executed is program[addr]; the Jmpp itself is
\* executed once per arrival.
C9_JmppSetsPc ==
    [][(Running /\ FetchedKind = "Jmpp" /\ sp >= 1 /\ ~WordGe(Top, Len(bin))) =>
          /\ status' = "running"
          /\ sp' = sp - 1
          /\ pc' = Small(Top)]_vars

\* C10: Prt is a peek-print: when the low 32 bits of the top word are a
\* Unicode scalar, after Prt sp and the whole stack are unchanged and pc
\* has advanced by 1.
C10_PrtKeepsStack ==
    [][(Running /\ FetchedKind = "Prt" /\ sp >= 1 /\ ValidChar(Trunc(32, Top))) =>
          /\ status' = "running"
          /\ sp' = sp
          /\ stack' = stack
          /\ pc' = pc + 1]_vars

\* The instruction fetched has to push a word while sp = MAX_SIZE: a Push
\* or a Dup on a full stack, an interpreted Call with fewer than two free
\* slots, a Ret whose frame restores sp to MAX_SIZE.
PushOnFull ==
    /\ Running
    /\ \/ FetchedKind \in {"Push", "Dup"} /\ sp = MAX_SIZE
       \/ /\ FetchedKind = "Call"
          /\ Fetched.value \notin DOMAIN compiled_procs
          /\ sp > MAX_SIZE - 2
       \/ /\ FetchedKind = "Ret"
          /\ sp >= 3
          /\ stack[sp - 3] = Word(MAX_SIZE)
          /\ ~WordGt(stack[sp - 2], Len(bin))

\* C11: whenever an instruction has to push a word while sp = MAX_SIZE, the
\* instruction fails and execution terminates; so for Push, for Dup on a
\* full stack, for Call with fewer than two free slots and for Ret pushing
\* the return value: none continues with the word dropped.
C11_PushOnFullStops == [][PushOnFull => status' # "running"]_vars

\* The instruction fetched is a control transfer that is taken and whose
\* target is not an index of the program.
BadTransfer ==
    /\ Running
    /\ WordGe(Fetched.value, Len(bin))
    /\ \/ FetchedKind \in {"Jmp", "Call"}
       \/ FetchedKind = "Jeq" /\ sp >= 1 /\ Top = Zero
       \/ FetchedKind = "Jnz" /\ sp >= 1 /\ Top # Zero

\* C12: every taken control transfer whose target addr >= len(program)
\* (Jmp addr, Call addr, Jeq addr with popped v = 0, Jnz addr with popped
\* v # 0) fails and terminates execution: no further instruction, the same
\* one again included, is executed after it.
C12_BadTargetStops == [][BadTransfer => status' # "running"]_vars

\* A Call whose target is in compiled_procs, with room for one word.
NativeCall ==
    /\ Running
    /\ FetchedKind = "Call"
    /\ Fetched.value \in DOMAIN compiled_procs
    /\ sp < MAX_SIZE

\* C18: once a procedure made only of Push, Pop, Swap, Uadd64 and Ret has
\* been promoted after its first interpreted execution, every later Call to
\* it takes the native path: it builds no interpreter frame, leaves
\* funcs_used and proc_pc unchanged, pushes exactly one word and advances
\* pc by 1; so the second Call f of
\* `push 3 call f push 3 call f halt f: push 4 uadd64 ret`.
C18_PromotedCallIsNative ==
    [][NativeCall =>
          /\ status' = "running"
          /\ sp' = sp + 1
          /\ pc' = pc + 1
          /\ \A i \in 0..(sp - 1) : stack'[i] = stack[i]
          /\ UNCHANGED <<funcs_used, proc_pc, compiled_procs>>]_vars

\* C19: a procedure entry present in compiled_procs is never compiled or
\* installed again: over any execution each entry index is inserted at most
\* once and its entry is never replaced. (A replacement by the code of an
\* empty slice, whose mapping may not be had, is left aside.)
C19_InstalledOnce ==
    [][\A T \in DOMAIN compiled_procs :
          /\ T \in DOMAIN compiled_procs'
          /\ \/ compiled_procs'[T] = compiled_procs[T]
             \/ jit_memory_store'[compiled_procs'[T]] = <<>>]_vars

\* Ret is about to hand the JIT a slice bin[proc_pc .. pc + 1] holding an
\* opcode outside JitSupported.
UnsupportedSlice ==
    /\ Running
    /\ FetchedKind = "Ret"
    /\ proc_pc \in DOMAIN funcs_used
    /\ funcs_used[proc_pc] = INTERPRETED_EXECUTIONS
    /\ ~WordGt(proc_pc, pc + 1)
    /\ \E i \in (Small(proc_pc) + 1)..(pc + 1) :
          TokenTypeFrom(bin[i].opcode) \notin JitSupported

\* What Ret does when it makes no JIT attempt.
PlainRet == Return([Self EXCEPT !.should_increment_pc = TRUE])

\* C20: JIT failures are not fatal: when the slice handed to the JIT on Ret
\* holds an opcode outside {Push, Pop, Swap, Uadd64, Ret}, compiled_procs
\* is left unchanged and that Ret completes exactly as it would without a
\* JIT attempt.
C20_JitFailureNotFatal ==
    [][UnsupportedSlice =>
          /\ status' \notin Ended
          /\ UNCHANGED <<compiled_procs, jit_memory_store>>
          /\ stack' = PlainRet.m.stack
          /\ sp' = PlainRet.m.sp
          /\ pc' = PlainRet.m.pc + 1]_vars

\* The assembler has returned a record vector for the source.
Assembled == byts.called /\ byts.some

\* The names the source defines as labels, and what the assembler
\* substitutes for each.
LabelNames == {TrimColons(source[i]) : i \in {j \in 1..Len(source) : EndsWithColon(source[j])}}
Substituted == Lex(source, 1, <<>>, [k \in {} |-> <<>>], 0).labels

\* Position i of the source holds the definition in force of a label that
\* some Name token refers to.
ReferencedDefinition(i) ==
    /\ EndsWithColon(source[i])
    /\ \A j \in (i + 1)..Len(source) :
          EndsWithColon(source[j]) => TrimColons(source[j]) # TrimColons(source[i])
    /\ \E j \in 1..Len(source) :
          /\ source[j] = TrimColons(source[i])
          /\ TokenNew(source[j]).kind = "Name"

\* The records emitted from the words before position i.
RecordsBefore(i) ==
    Bind(Resolve(Lex(SubSeq(source, 1, i - 1), 1, <<>>, [k \in {} |-> <<>>], 0).tokens,
                 Substituted, 1),
         LAMBDA resolved :
             IF resolved.some THEN Emit(resolved.val, 1, <<>>) ELSE Nothing)

\* C13: for every source that assembles, the value substituted for each
\* reference to a label is the index, in the emitted records, of the first
\* record emitted from a token after the label's definition: the number of
\* records emitted from the words before it. (A definition placed between
\* a mnemonic and its operand is left aside.)
C13_LabelIsRecordIndex ==
    (Assembled /\ parse_code(source).some) =>
        \A i \in 1..Len(source) :
            (ReferencedDefinition(i) /\ RecordsBefore(i).some) =>
                ParseU64(Substituted[TrimColons(source[i])])
                    = Word(Len(RecordsBefore(i).val))

\* C14: no record emitted by the assembler carries one of the lexer's own
\* opcodes Value, Label, Name or Err (opcode byte >= 35): a token that is
\* neither a mnemonic nor the operand of one makes assembly fail.
C14_NoLexerOpcodeEmitted ==
    Assembled =>
        \A i \in 1..Len(byts.val) :
            /\ byts.val[i].opcode < 35
            /\ TokenTypeFrom(byts.val[i].opcode) \notin Uncounted

\* The source holds a Name that no label defines and that is no u64.
HasUndefinedName ==
    \E i \in 1..Len(source) :
        /\ TokenNew(source[i]).kind = "Name"
        /\ source[i] \notin LabelNames
        /\ ~IsU64(source[i])

\* C15: if the source holds a Name token that is not defined as a label
\* (and is no unsigned integer), assembly fails and returns no record
\* vector: no program, not even an empty one, is handed on.
C15_UndefinedNameFails ==
    (byts.called /\ HasUndefinedName) => ~byts.some

\* How many of the records, and of the words of the source, are Halt.
HaltRecords == Cardinality({i \in 1..Len(byts.val) : byts.val[i].opcode = Ord("Halt")})
HaltWords == Cardinality({i \in 1..Len(source) : Mnemonic(source[i]) = "Halt"})
NonLabelWords == {i \in 1..Len(source) : ~EndsWithColon(source[i])}
FinalWordIsHalt ==
    \E i \in NonLabelWords :
        /\ \A j \in NonLabelWords : j <= i
        /\ Mnemonic(source[i]) = "Halt"

\* C16: for every source with at least one token that is no label and that
\* assembles, the last record emitted is Halt: a Halt is added exactly when
\* the final token is not the halt mnemonic, and none when it is.
C16_EndsWithHalt ==
    (Assembled /\ NonLabelWords # {}) =>
        /\ byts.val # <<>>
        /\ byts.val[Len(byts.val)].opcode = Ord("Halt")
        /\ HaltRecords = HaltWords + (IF FinalWordIsHalt THEN 0 ELSE 1)

\* Byte k (0 the lowest) of a word.
ByteOf(w, k) == (w[(k \div 2) + 1] \div (IF k % 2 = 0 THEN 1 ELSE 256)) % 256

\* The layout of a .bin file holding program p: the count in 8 little-endian
\* bytes, then 9 bytes a record, the opcode and the value little-endian.
IsBinOf(bytes, p) ==
    /\ Len(bytes) = 8 + 9 * Len(p)
    /\ \A k \in 0..7 : bytes[k + 1] = ByteOf(Word(Len(p)), k)
    /\ \A i \in 1..Len(p) :
          /\ bytes[8 + 9 * (i - 1) + 1] = p[i].opcode
          /\ \A k \in 0..7 : bytes[8 + 9 * (i - 1) + 2 + k] = ByteOf(p[i].value, k)

\* C17: the codec round-trips: for every program p (any records, none
\* included), the bytes write_bin writes are an 8-byte little-endian count
\* and then count 9-byte records, and reading them back gives exactly p.
C17_CodecRoundTrip ==
    /\ (file.called /\ file.some) => IsBinOf(file.val, bin)
    /\ loaded.called => (loaded.some /\ loaded.val = bin)

\* A program of two records with all eight value bytes different has been
\* written and read back.
C17_Witness ==
    /\ loaded.called
    /\ Len(bin) = 2
    /\ bin[1].value = <<513, 1027, 1541, 2055>>
    /\ bin[2].opcode = 255
    /\ loaded.val = bin

\* The body of a procedure run by the interpreter from m up to and
\* including its first Ret (a procedure of the JIT's subset makes no call),
\* in at most fuel instructions.
RECURSIVE RunBody(_, _)
RunBody(m, fuel) ==
    IF fuel = 0 \/ m.pc >= Len(bin) THEN None(m)
    ELSE IF TokenTypeFrom(bin[m.pc + 1].opcode) = "Ret" THEN Return(m)
    ELSE Bind(eval([m EXCEPT !.should_increment_pc = TRUE], bin[m.pc + 1], Quiet,
                   overflow_checks),
              LAMBDA r :
                  IF r.some /\ r.m.abort = "" THEN RunBody(r.m, fuel - 1) ELSE r)

\* The Call fetched as the interpreter would serve it, to the procedure's
\* return.
InterpretedCall ==
    Bind(Enter([Self EXCEPT !.should_increment_pc = TRUE], Fetched.value),
         LAMBDA entered :
             IF entered.some /\ entered.m.abort = "" THEN RunBody(entered.m, MaxSteps)
             ELSE entered)

\* The program `push 3 call f push 3 call f halt f: push 4 uadd64 ret`.
IsTwiceAdd == bin = TwiceProgram(<<ByteCode("Push", Word(4)), ByteCode("Uadd64", Zero)>>)

\* C21: a Call served by the native code leaves the same top-of-stack value
\* as the same Call served by the interpreter, for every promoted procedure
\* and every caller stack; and `push 3 call f push 3 call f halt f: push 4
\* uadd64 ret` has 7 on top after each of its two calls (at the instruction
\* after each Call).
C21_NativeMatchesInterpreter ==
    /\ [][(NativeCall /\ InterpretedCall.some /\ InterpretedCall.m.sp >= 1) =>
             /\ status' = "running"
             /\ sp' >= 1
             /\ stack'[sp' - 1] = InterpretedCall.m.stack[InterpretedCall.m.sp - 1]]_vars
    /\ [](IsTwiceAdd =>
             ((status = "running" /\ pc \in {2, 4}) => (sp >= 1 /\ Top = Word(7))))

\* Ret is about to run the promotion check with funcs_used[proc_pc] at the
\* threshold, so that it takes the slice bin[proc_pc .. pc + 1].
RetPromotes ==
    /\ Running
    /\ FetchedKind = "Ret"
    /\ proc_pc \in DOMAIN funcs_used
    /\ funcs_used[proc_pc] = INTERPRETED_EXECUTIONS

\* C22: executing Ret never crashes the VM: in every reachable state in
\* which Ret runs the promotion check with funcs_used[proc_pc] at the
\* threshold, proc_pc <= pc + 1, so the slice bin[proc_pc .. pc + 1] handed
\* to the JIT is a well-formed range; also after nested calls and after
\* jumps out of a procedure body.
C22_RetSliceWellFormed ==
    /\ RetPromotes => ~WordGt(proc_pc, pc + 1)
    /\ status # "slice"

\* Ret is about to run with fewer than the three words of a return: the
\* return value, the return pc and the saved sp.
RetOnPartialFrame ==
    /\ Running
    /\ FetchedKind = "Ret"
    /\ sp < 3

\* C23: Ret executed with fewer than three words on the stack (sp < 3)
\* fails and terminates execution; it never completes a return using a
\* partial frame.
C23_RetNeedsThreeWords == [][RetOnPartialFrame => status' = "failed"]_vars

\* A Call that the interpreter serves: its target is not in compiled_procs.
InterpretedCallOn ==
    /\ Running
    /\ FetchedKind = "Call"
    /\ Fetched.value \notin DOMAIN compiled_procs

\* Such a Call with a target inside the program and room for the two words
\* of the frame header.
RoomyCall ==
    /\ InterpretedCallOn
    /\ ~WordGe(Fetched.value, Len(bin))
    /\ sp <= MAX_SIZE - 2

\* funcs_used[T], 0 when T has no entry.
Count(f, T) == IF T \in DOMAIN f THEN f[T] ELSE 0

\* funcs_used after one more interpreted Call to T.
Counted(f, T) ==
    [k \in (DOMAIN f) \cup {T} |-> IF k = T THEN Count(f, T) + 1 ELSE f[k]]

\* C24: an interpreted Call T (T not in compiled_procs, T < len(program))
\* executed at index P with sp = S <= MAX_SIZE - 2 results in stack[S] = S,
\* stack[S+1] = P, sp = S + 2, pc = T, proc_pc = T and funcs_used[T]
\* increased by exactly 1 (created as 1 if absent), with all stack words
\* below S and all other entries of funcs_used unchanged. Every interpreted
\* Call counts once and nothing else changes funcs_used, so funcs_used[T]
\* is the number of interpreted Calls to T executed so far.
C24_InterpretedCallFrame ==
    [][/\ RoomyCall =>
            /\ status' = "running"
            /\ stack'[sp] = Word(sp)
            /\ stack'[sp + 1] = Word(pc)
            /\ sp' = sp + 2
            /\ pc' = Small(Fetched.value)
            /\ proc_pc' = Fetched.value
            /\ \A i \in 0..(sp - 1) : stack'[i] = stack[i]
       /\ InterpretedCallOn => funcs_used' = Counted(funcs_used, Fetched.value)
       /\ ~InterpretedCallOn => funcs_used' = funcs_used]_vars

\* The second Call f of `push 3 call f push 3 call f halt f: push 4 uadd64
\* ret`, served by the interpreter because f could not be installed, has
\* built its frame at sp = 5 and counted f a second time.
C24_Witness ==
    /\ IsTwiceAdd
    /\ status = "running"
    /\ pc = 5
    /\ sp = 7
    /\ stack[5] = Word(5)
    /\ stack[6] = Word(3)
    /\ proc_pc = Word(5)
    /\ funcs_used = (Word(5) :> 2)

\* A Swap is fetched; its distance k reaches a word of the stack.
SwapOn == Running /\ FetchedKind = "Swap"
SwapReaches == IsSmall(Fetched.value) /\ sp > Small(Fetched.value)

\* The stack with its top word and the word k slots below it exchanged.
Exchanged(k) ==
    [stack EXCEPT ![sp - 1] = stack[sp - 1 - k], ![sp - 1 - k] = stack[sp - 1]]

\* C25: Swap k with sp > k exchanges the top word with the word k slots
\* below it (stack[sp-1] and stack[sp-1-k]) and changes nothing else: sp and
\* every other stack word are unchanged, Swap 0 is a no-op and a second
\* Swap k restores the original stack; Swap k with sp <= k fails without
\* modifying the stack.
C25_SwapExchanges ==
    [][SwapOn =>
          IF SwapReaches
          THEN /\ status' = "running"
               /\ sp' = sp
               /\ pc' = pc + 1
               /\ stack' = Exchanged(Small(Fetched.value))
               /\ Fetched.value = Zero => stack' = stack
               /\ swap(Self', Fetched.value).some
               /\ swap(Self', Fetched.value).m.stack = stack
               /\ swap(Self', Fetched.value).m.sp = sp
          ELSE /\ status' = "failed"
               /\ stack' = stack
               /\ sp' = sp]_vars

\* `push 1 push 2 push 3 push 4 swap 2`: the 4 on top and the 2 two slots
\* below it have changed places.
C25_Witness ==
    /\ bin = SwapProgram(Word(2))
    /\ pc = 5
    /\ sp = 4
    /\ stack[0] = Word(1)
    /\ stack[1] = Word(4)
    /\ stack[2] = Word(3)
    /\ stack[3] = Word(2)

\* Opcodes by the number of words their handler pops before anything else.
PopsOne == {"Pop", "Prt", "Inc", "Dup", "Jmpp", "Jeq", "Jnz", "Int"}
PopsTwo ==
    (DOMAIN AddOps) \cup (DOMAIN SubOps) \cup (DOMAIN AddfOps) \cup (DOMAIN SubfOps)
    \cup {"Cmp"}

\* The instruction fetched is one whose handler returns the fail signal:
\* a stack underflow, a Push on a full stack, a Jmp or Call out of range, an
\* Inc of u64::MAX, a Prt of no Unicode scalar, an opcode byte >= 35.
FailCase ==
    /\ Running
    /\ \/ FetchedKind \in PopsOne /\ sp = 0
       \/ FetchedKind \in PopsTwo /\ sp < 2
       \/ FetchedKind = "Swap" /\ ~SwapReaches
       \/ FetchedKind = "Push" /\ sp = MAX_SIZE
       \/ FetchedKind \in {"Jmp", "Call"} /\ WordGe(Fetched.value, Len(bin))
       \/ FetchedKind = "Inc" /\ sp >= 1 /\ Top = U64Max
       \/ FetchedKind = "Prt" /\ sp >= 1 /\ ~ValidChar(Trunc(32, Top))
       \/ Fetched.opcode >= 35

\* C26: when a handler returns the fail signal (stack underflow, stack
\* overflow on Push, out-of-range Jmp or Call target, Inc of u64::MAX,
\* invalid Unicode in Prt, an opcode byte >= 35), the run loop executes no
\* further instruction: the failing instruction is the last one executed in
\* that run.
C26_FailureEndsRun ==
    [][/\ FailCase => (status' = "failed" /\ steps' = steps + 1)
       /\ status = "failed" => UNCHANGED <<status, steps, pc, sp, stack>>]_vars

\* `push 0 push 2^64-1 inc` has failed at its third instruction.
C26_Witness ==
    /\ bin = <<ByteCode("Push", Zero), ByteCode("Push", U64Max), ByteCode("Inc", Zero)>>
    /\ status = "failed"
    /\ steps = 3
    /\ sp = 1

\* The opcodes that are never a control transfer, and the number of words
\* on top of the stack that are the operands of the instruction fetched.
Plain ==
    {"Push", "Pop", "Prt", "Inc", "Dup", "Swap", "Cmp"}
    \cup (DOMAIN AddOps) \cup (DOMAIN SubOps) \cup (DOMAIN AddfOps) \cup (DOMAIN SubfOps)
Operands ==
    IF FetchedKind = "Push" THEN 0
    ELSE IF FetchedKind \in PopsTwo THEN 2
    ELSE IF FetchedKind = "Swap" THEN Small(Fetched.value) + 1
    ELSE 1

\* Int with operand 0 runs the Halt handler; a Jeq or Jnz is taken.
IntHalts == FetchedKind = "Int" /\ sp >= 1 /\ Top = Zero
Taken ==
    \/ FetchedKind = "Jeq" /\ sp >= 1 /\ Top = Zero
    \/ FetchedKind = "Jnz" /\ sp >= 1 /\ Top # Zero

\* The instruction fetched is no control transfer: an opcode of Plain, an
\* Int with a non-zero operand, a Jeq or Jnz that falls through.
NonControl ==
    /\ Running
    /\ \/ FetchedKind \in Plain
       \/ FetchedKind = "Int" /\ sp >= 1 /\ Top # Zero
       \/ FetchedKind \in {"Jeq", "Jnz"} /\ sp >= 1 /\ ~Taken

\* What every successfully executed non-control instruction does: pc
\* advances by exactly 1; the program, proc_pc, funcs_used and
\* compiled_procs are unchanged; so is every stack word below the operands.
PlainEffect ==
    (NonControl /\ status' = "running") =>
        /\ pc' = pc + 1
        /\ UNCHANGED <<bin, proc_pc, funcs_used, compiled_procs>>
        /\ \A i \in 0..(sp - Operands - 1) : stack'[i] = stack[i]

\* An instruction has been executed and has left pc at something other
\* than pc + 1.
MovesPc == Running /\ status' \notin Ended /\ pc' # pc + 1

====
